---- MODULE Spec2Model ----
(***************************************************************************)
(* A model of cpx (src/Code.c): a two-pass recursive copy.  main() stats   *)
(* the source, count_files() counts the regular files below it, and then   *)
(* copy_dir()/copy_file() mirror the tree under the destination while      *)
(* copied_files drives a progress line.                                    *)
(*                                                                         *)
(* Path arguments are strings (sequences of characters), composed with     *)
(* snprintf("%s/%s") and measured against PATH_MAX exactly as the code     *)
(* does.  The filesystem is a function from resolved component sequences   *)
(* to nodes; stat(), fopen(), opendir() and mkdir() resolve a string the   *)
(* way the kernel does (empty components ignored, symbolic links           *)
(* followed).  Every name in the modelled trees is one character long and  *)
(* the working directory is the root, so a string's components are its     *)
(* non-slash characters.                                                   *)
(***************************************************************************)
EXTENDS Integers, Sequences, FiniteSets, TLC

\* PATH_MAX (limits.h), scaled down: a composed path of PathMax characters
\* or more does not fit the buffers of count_files, copy_dir and main.
PathMax == 10

\* The longest file, in BUFFER_SIZE chunks.
MaxData == 2

\* How many symbolic links one path resolution follows before ELOOP.
MaxLinks == 2

VARIABLES
    fs,            \* the filesystem: resolved path -> node
    fs0,           \* the filesystem when the program started
    unreadable,    \* nodes whose open for reading (fopen "rb", opendir) is denied
    argc,          \* main's argc
    srcArg,        \* argv[1]
    dstArg,        \* argv[2]
    pc,            \* where main is: "start", "scan", "copy", "done"
    stack,         \* the open directory loops of count_files / copy_dir, innermost last
    st_mode,       \* main's st.st_mode: the source's kind as stat() gave it
    total_files,   \* static size_t total_files
    copied_files,  \* static size_t copied_files
    exit_code,     \* main's return value, -1 while it runs
    out,           \* what was printed on stdout: "nofiles", "done"
    err,           \* the kinds of message printed on stderr
    renders,       \* how many progress lines show_progress printed
    fault,         \* the I/O fault of this run: which chunk fails, and how
    calls,         \* how many copy_file calls returned 0
    last,          \* the latest copy_file call: its arguments and outcome
    mkdirs         \* the strings mkdir() was called with

vars == <<fs, fs0, unreadable, argc, srcArg, dstArg, pc, stack, st_mode,
          total_files, copied_files, exit_code, out, err, renders, fault,
          calls, last, mkdirs>>

----------------------------------------------------------------------------
\* Nodes and path resolution

Dir == [kind |-> "dir", data |-> <<>>, target |-> <<>>]

Reg(d) == [kind |-> "reg", data |-> d, target |-> <<>>]

Fifo == [kind |-> "fifo", data |-> <<>>, target |-> <<>>]

Lnk(t) == [kind |-> "lnk", data |-> <<>>, target |-> t]

\* The result of resolving a path that cannot be walked (ENOENT, ENOTDIR, ELOOP).
NoPath == <<"?">>

\* The components of a path string.
Comps(s) == SelectSeq(s, LAMBDA c : c # "/")

Front(s) == SubSeq(s, 1, Len(s) - 1)

Last(s) == s[Len(s)]

\* The kernel's path walk from the resolved directory cur over the components
\* rest, following every symbolic link met.  The result is NoPath, or a path
\* whose parent is an existing directory (the path itself may not exist yet).
RECURSIVE Walk(_, _, _, _)
Walk(f, cur, rest, fuel) ==
    IF rest = <<>> THEN cur
    ELSE IF cur = NoPath \/ cur \notin DOMAIN f \/ f[cur].kind # "dir" THEN NoPath
    ELSE LET nxt == Append(cur, Head(rest)) IN
         IF nxt \in DOMAIN f /\ f[nxt].kind = "lnk"
         THEN IF fuel = 0 THEN NoPath
              ELSE Walk(f, Walk(f, <<>>, f[nxt].target, fuel - 1), Tail(rest), fuel - 1)
         ELSE Walk(f, nxt, Tail(rest), fuel)

\* The node a path string names, links followed (stat, fopen, opendir).
Resolve(f, s) == Walk(f, <<>>, Comps(s), MaxLinks)

\* stat(s): the kind of the node s resolves to, "none" when stat() returns -1.
Stat(f, s) ==
    LET p == Resolve(f, s) IN
    IF s = <<>> \/ p = NoPath \/ p \notin DOMAIN f THEN "none" ELSE f[p].kind

\* The names readdir() can return for a resolved directory (not "." and "..").
Entries(f, p) == {n \in {Last(q) : q \in DOMAIN f \ {<<>>}} : Append(p, n) \in DOMAIN f}

\* snprintf(buf, sizeof buf, "%s/%s", a, b): the string it composes.
Join(a, b) == a \o <<"/">> \o b

\* rc >= sizeof(buf): the composed string does not fit.
TooLong(s) == Len(s) >= PathMax

----------------------------------------------------------------------------
\* count_files

\* The frame of a directory loop: the path string the function was called
\* with, the destination string (copy_dir only), the entries of the opendir
\* snapshot not yet returned, and the names already returned.
Frame(fn, src, dst, names) ==
    [fn |-> fn, src |-> src, dst |-> dst, todo |-> names, seen |-> {}]

\* A count_files that counts every entry that is not a directory.
CountsAnyNonDirectory(k) == k \notin {"none", "dir"}

\* S_ISREG(st.st_mode) in count_files: the entry adds one to total_files.
CountsAsFile(k) == k = "reg"

\* count_files(path) up to its readdir loop: what it adds to total_files and
\* the frame of the loop it enters, if any.
CountEnter(f, path) ==
    LET k == Stat(f, path)
        p == Resolve(f, path)
    IN  IF k = "none" THEN [add |-> 0, push |-> <<>>]
        ELSE IF CountsAsFile(k) THEN [add |-> 1, push |-> <<>>]
        ELSE IF k = "dir"
             THEN IF p \in unreadable THEN [add |-> 0, push |-> <<>>]
                  ELSE [add |-> 0, push |-> <<Frame("count", path, <<>>, Entries(f, p))>>]
        ELSE [add |-> 0, push |-> <<>>]

\* What readdir() may return next for the innermost loop: an entry of the
\* opendir snapshot, or an entry created since (POSIX leaves open whether
\* such an entry is returned).
Readable(fr) ==
    LET now == Entries(fs, Resolve(fs, fr.src))
    IN  fr.todo \cup (now \ (fr.todo \cup fr.seen))

Top == stack[Len(stack)]

Returned(fr, n) == [fr EXCEPT !.todo = @ \ {n}, !.seen = @ \cup {n}]

----------------------------------------------------------------------------
\* mkdir, show_progress, copy_file, copy_dir

\* mkdir(s, 0755): "ok" with the directory made, "eexist" when the name is
\* taken (by anything: a directory, a file, a link), "fail" when the parent
\* cannot be walked or is no directory.
Mkdir(f, s) ==
    LET c == Comps(s)
        parent == IF c = <<>> THEN NoPath ELSE Walk(f, <<>>, Front(c), MaxLinks)
        leaf == IF c = <<>> THEN <<>> ELSE Append(parent, Last(c))
    IN  IF c = <<>> THEN [fs |-> f, res |-> IF s = <<>> THEN "fail" ELSE "eexist"]
        ELSE IF parent = NoPath \/ parent \notin DOMAIN f \/ f[parent].kind # "dir"
             THEN [fs |-> f, res |-> "fail"]
        ELSE IF leaf \in DOMAIN f THEN [fs |-> f, res |-> "eexist"]
        ELSE [fs |-> (leaf :> Dir) @@ f, res |-> "ok"]

\* mkdir(dst, 0755) != 0 && errno != EEXIST
MkdirFailed(m) == m.res = "fail"

\* show_progress(): 1 when it prints a line, 0 when total_files == 0.
ShowProgress(total) == IF total = 0 THEN 0 ELSE 1

\* The I/O fault a run meets: none, or the transfer of chunk at + 1 of every
\* file fails: its read, its write, or its flush when the file is closed.
NoFault == [kind |-> "none", at |-> 0]

Faults ==
    {NoFault} \cup [kind : {"readerr", "shortwrite", "closeerr"}, at : 0 .. (MaxData - 1)]

\* The fread/fwrite loop and the two fclose calls over the source's chunks:
\* what reaches the destination and what copy_file returns.
\*  - a read error makes fread return 0, which ends the loop like end of file;
\*  - a short write is reported and returns -1;
\*  - a failed flush in fclose(fdst) loses the buffered tail, and the return
\*    value of fclose is not looked at.
CopyLoop(data, io) ==
    IF io.kind = "none" \/ io.at >= Len(data)
    THEN [written |-> data, ret |-> 0, err |-> {}, faulted |-> FALSE]
    ELSE IF io.kind = "shortwrite"
    THEN [written |-> SubSeq(data, 1, io.at), ret |-> -1, err |-> {"write"},
          faulted |-> TRUE]
    ELSE [written |-> SubSeq(data, 1, io.at), ret |-> 0, err |-> {}, faulted |-> TRUE]

\* fopen(src, "rb"): the node read, NoPath when the open fails.
OpenRead(f, src) ==
    LET p == Resolve(f, src) IN
    IF src = <<>> \/ p = NoPath \/ p \notin DOMAIN f \/ p \in unreadable THEN NoPath ELSE p

\* fopen(dst, "wb"): the node created or truncated, NoPath when the open
\* fails (no parent directory, or the name is taken by something that is
\* not a regular file).
OpenWrite(f, dst) ==
    LET p == Resolve(f, dst) IN
    IF dst = <<>> \/ p = NoPath \/ p = <<>> THEN NoPath
    ELSE IF p \in DOMAIN f /\ f[p].kind # "reg" THEN NoPath
    ELSE p

\* copy_file(src, dst) with the I/O outcome io.
CopyFile(f, src, dst, io, total) ==
    LET sp == OpenRead(f, src)
        dp == OpenWrite(f, dst)
        f1 == IF dp = NoPath THEN f ELSE (dp :> Reg(<<>>)) @@ f
        loop == CopyLoop(IF sp = NoPath THEN <<>> ELSE f1[sp].data, io)
        f2 == IF dp = NoPath THEN f ELSE (dp :> Reg(loop.written)) @@ f
        call == [src |-> src, dst |-> dst, sp |-> sp, dp |-> dp,
                 data |-> IF sp = NoPath THEN <<>> ELSE f1[sp].data]
    IN  IF sp = NoPath
        THEN [fs |-> f, ret |-> -1, err |-> {"open_src"}, add |-> 0, shown |-> 0,
              faulted |-> FALSE, call |-> call]
        ELSE IF dp = NoPath
        THEN [fs |-> f, ret |-> -1, err |-> {"open_dst"}, add |-> 0, shown |-> 0,
              faulted |-> FALSE, call |-> call]
        ELSE IF loop.ret # 0
        THEN [fs |-> f2, ret |-> -1, err |-> loop.err, add |-> 0, shown |-> 0,
              faulted |-> loop.faulted, call |-> call]
        ELSE [fs |-> f2, ret |-> 0, err |-> {}, add |-> 1, shown |-> ShowProgress(total),
              faulted |-> loop.faulted, call |-> call]

\* Before the first copy_file call.
NoCall ==
    [src |-> <<>>, dst |-> <<>>, sp |-> NoPath, dp |-> NoPath, data |-> <<>>,
     faulted |-> FALSE, ret |-> 1, add |-> 0, shown |-> 0]

\* What a copy_file call leaves in `last`: its arguments, the nodes it opened,
\* the source's contents as the loop read them, whether the fault hit it,
\* what it returned, and what it added to copied_files and to the progress lines.
Logged(r) ==
    [src |-> r.call.src, dst |-> r.call.dst, sp |-> r.call.sp, dp |-> r.call.dp,
     data |-> r.call.data, faulted |-> r.faulted, ret |-> r.ret, add |-> r.add,
     shown |-> r.shown]

\* copy_dir(src, dst) up to its readdir loop: the mkdir, the opendir, and the
\* frame of the loop it enters, if any.
CopyDirEnter(f, src, dst) ==
    LET m == Mkdir(f, dst)
        p == Resolve(m.fs, src)
    IN  IF MkdirFailed(m)
        THEN [fs |-> f, ret |-> -1, err |-> {"mkdir"}, push |-> <<>>]
        ELSE IF src = <<>> \/ p = NoPath \/ p \notin DOMAIN m.fs \/ m.fs[p].kind # "dir"
                \/ p \in unreadable
        THEN [fs |-> m.fs, ret |-> -1, err |-> {"opendir"}, push |-> <<>>]
        ELSE [fs |-> m.fs, ret |-> 0, err |-> {},
              push |-> <<Frame("copy_dir", src, dst, Entries(m.fs, p))>>]

----------------------------------------------------------------------------
\* main

\* trim_trailing_slashes(in, buf, bufsz) with bufsz = PATH_MAX
RECURSIVE TrimLen(_, _)
TrimLen(in, len) ==
    IF len > 1 /\ in[len] = "/" THEN TrimLen(in, len - 1) ELSE len

trim_trailing_slashes(in) ==
    LET len == TrimLen(in, Len(in))
    IN  SubSeq(in, 1, IF len >= PathMax THEN PathMax - 1 ELSE len)

\* strrchr(s, '/'): the index of the last slash, 0 when there is none.
RECURSIVE Strrchr(_, _)
Strrchr(s, i) == IF i = 0 \/ s[i] = "/" THEN i ELSE Strrchr(s, i - 1)

\* base = strrchr(s, '/'); base = (base ? base + 1 : s)
Basename(s) == SubSeq(s, Strrchr(s, Len(s)) + 1, Len(s))

\* The state main leaves when it returns code.
Exit(code, stdout, stderr) ==
    /\ pc' = "done"
    /\ exit_code' = code
    /\ out' = out \cup stdout
    /\ err' = err \cup stderr
    /\ stack' = <<>>

\* main, lines 152-167: the argument check, stat(src), and count_files(src)
\* up to its first readdir.
MainStart ==
    /\ pc = "start"
    /\ IF argc # 3
       THEN /\ Exit(1, {}, {"usage"})
            /\ UNCHANGED <<st_mode, total_files>>
       ELSE IF Stat(fs, srcArg) = "none"
       THEN /\ Exit(1, {}, {"stat_src"})
            /\ UNCHANGED <<st_mode, total_files>>
       ELSE LET c == CountEnter(fs, srcArg) IN
            /\ st_mode' = Stat(fs, srcArg)
            /\ total_files' = total_files + c.add
            /\ stack' = c.push
            /\ pc' = "scan"
            /\ UNCHANGED <<exit_code, out, err>>
    /\ UNCHANGED <<fs, fs0, unreadable, fault, argc, srcArg, dstArg, copied_files,
                   renders, calls, last, mkdirs>>

\* count_files, lines 33-40: one readdir of the innermost loop.  NULL closes
\* the directory and returns; an entry is composed, skipped when too long,
\* and counted by the recursive call.
ScanStep ==
    /\ pc = "scan"
    /\ stack # <<>>
    /\ \/ /\ Top.todo = {}
          /\ stack' = Front(stack)
          /\ UNCHANGED total_files
       \/ \E n \in Readable(Top) :
            LET full == Join(Top.src, <<n>>)
                rest == [stack EXCEPT ![Len(stack)] = Returned(Top, n)]
                c == CountEnter(fs, full)
            IN  IF TooLong(full)
                THEN stack' = rest /\ UNCHANGED total_files
                ELSE stack' = rest \o c.push /\ total_files' = total_files + c.add
    /\ UNCHANGED <<fs, fs0, unreadable, fault, argc, srcArg, dstArg, pc, st_mode,
                   copied_files, exit_code, out, err, renders, calls, last, mkdirs>>

\* main, lines 174-186 and 198-216: the destination string of the copy pass,
\* <<>> standing for "destination path too long".
TopDst ==
    IF st_mode = "dir"
    THEN LET newdst == Join(dstArg, Basename(trim_trailing_slashes(srcArg)))
         IN  IF TooLong(newdst) THEN <<>> ELSE newdst
    ELSE LET dstpath == IF Stat(fs, dstArg) = "dir"
                        THEN Join(dstArg, Basename(srcArg))
                        ELSE dstArg
         IN  IF TooLong(dstpath) THEN <<>> ELSE dstpath

\* main, lines 168-222: count_files has returned.  Nothing to copy, or the
\* top-level folder is made and copy_dir entered, or the single file copied,
\* or the source type is unsupported.
AfterScan ==
    /\ pc = "scan"
    /\ stack = <<>>
    /\ IF total_files = 0
       THEN /\ Exit(0, {"nofiles"}, {})
            /\ UNCHANGED <<fs, copied_files, renders, calls, last, mkdirs>>
       ELSE IF st_mode \notin {"dir", "reg"}
       THEN /\ Exit(1, {}, {"unsupported"})
            /\ UNCHANGED <<fs, copied_files, renders, calls, last, mkdirs>>
       ELSE IF TopDst = <<>>
       THEN /\ Exit(1, {}, {"dst_too_long"})
            /\ UNCHANGED <<fs, copied_files, renders, calls, last, mkdirs>>
       ELSE IF st_mode = "dir"
       THEN LET m == Mkdir(fs, TopDst)
                c == CopyDirEnter(m.fs, srcArg, TopDst)
            IN  IF MkdirFailed(m)
                THEN /\ Exit(1, {}, {"mkdir_top"})
                     /\ mkdirs' = mkdirs \cup {TopDst}
                     /\ UNCHANGED <<fs, copied_files, renders, calls, last>>
                ELSE /\ fs' = c.fs
                     /\ err' = err \cup c.err
                     /\ stack' = c.push
                     /\ pc' = "copy"
                     /\ mkdirs' = mkdirs \cup {TopDst}
                     /\ UNCHANGED <<copied_files, renders, calls, last,
                                    exit_code, out>>
       ELSE LET r == CopyFile(fs, srcArg, TopDst, fault, total_files) IN
                /\ fs' = r.fs
                /\ err' = err \cup r.err
                /\ copied_files' = copied_files + r.add
                /\ renders' = renders + r.shown
                /\ calls' = calls + (IF r.ret = 0 THEN 1 ELSE 0)
                /\ last' = Logged(r)
                /\ stack' = <<>>
                /\ pc' = "copy"
                /\ UNCHANGED <<mkdirs, exit_code, out>>
    /\ UNCHANGED <<fs0, unreadable, fault, argc, srcArg, dstArg, st_mode, total_files>>

\* A copy_dir that returns as soon as the copy of an entry fails.
ReturnOnFailure(rest, ret) == IF ret # 0 THEN Front(rest) ELSE rest

\* copy_dir, lines 127-136: the value copy_dir or copy_file returned for an
\* entry is not looked at, and the loop goes on with the next entry.
AfterEntry(rest, ret) == rest

\* copy_dir, lines 109-139: one readdir of the innermost loop.  NULL closes
\* the directory and returns 0; an entry is composed (both strings must fit),
\* stat()ed, and copied by copy_dir or copy_file according to its kind.
CopyStep ==
    /\ pc = "copy"
    /\ stack # <<>>
    /\ \/ /\ Top.todo = {}
          /\ stack' = Front(stack)
          /\ UNCHANGED <<fs, err, copied_files, renders, calls, last, mkdirs>>
       \/ \E n \in Readable(Top) :
            LET srcpath == Join(Top.src, <<n>>)
                dstpath == Join(Top.dst, <<n>>)
                rest == [stack EXCEPT ![Len(stack)] = Returned(Top, n)]
                k == Stat(fs, srcpath)
                c == CopyDirEnter(fs, srcpath, dstpath)
                r == CopyFile(fs, srcpath, dstpath, fault, total_files)
            IN  IF TooLong(srcpath) \/ TooLong(dstpath)
                THEN /\ err' = err \cup {"path_too_long"}
                     /\ stack' = rest
                     /\ UNCHANGED <<fs, copied_files, renders, calls, last, mkdirs>>
                ELSE IF k = "none"
                THEN /\ err' = err \cup {"stat"}
                     /\ stack' = rest
                     /\ UNCHANGED <<fs, copied_files, renders, calls, last, mkdirs>>
                ELSE IF k = "dir"
                THEN /\ fs' = c.fs
                     /\ err' = err \cup c.err
                     /\ stack' = AfterEntry(rest, c.ret) \o c.push
                     /\ mkdirs' = mkdirs \cup {dstpath}
                     /\ UNCHANGED <<copied_files, renders, calls, last>>
                ELSE IF k = "reg"
                THEN /\ fs' = r.fs
                     /\ err' = err \cup r.err
                     /\ copied_files' = copied_files + r.add
                     /\ renders' = renders + r.shown
                          /\ calls' = calls + (IF r.ret = 0 THEN 1 ELSE 0)
                     /\ last' = Logged(r)
                     /\ stack' = AfterEntry(rest, r.ret)
                     /\ UNCHANGED mkdirs
                ELSE /\ stack' = rest
                     /\ UNCHANGED <<fs, err, copied_files, renders, calls, last, mkdirs>>
    /\ UNCHANGED <<fs0, unreadable, fault, argc, srcArg, dstArg, pc, st_mode, total_files,
                   exit_code, out>>

\* A main whose exit code tells whether the copy pass reported an error.
MainFinishReportsFailures ==
    /\ pc = "copy"
    /\ stack = <<>>
    /\ Exit(IF err = {} THEN 0 ELSE 1, {"done"}, {})
    /\ UNCHANGED <<fs, fs0, unreadable, fault, argc, srcArg, dstArg, st_mode, total_files,
                   copied_files, renders, calls, last, mkdirs>>

\* main, lines 224-225: the copy pass has returned.
MainFinish ==
    /\ pc = "copy"
    /\ stack = <<>>
    /\ Exit(0, {"done"}, {})
    /\ UNCHANGED <<fs, fs0, unreadable, fault, argc, srcArg, dstArg, st_mode, total_files,
                   copied_files, renders, calls, last, mkdirs>>

----------------------------------------------------------------------------
\* The runs checked

\* A file of n chunks whose first chunk is c.
Chunks(c, n) == [i \in 1 .. n |-> c + i - 1]

\* The filesystem holding the nodes of a set of <<path, node>> pairs.
Tree(nodes) == [p \in {e[1] : e \in nodes} |-> (CHOOSE e \in nodes : e[1] = p)[2]]

\* /s: the files f (MaxData chunks) and g, the directory d holding a file f,
\* and the directory e holding only an empty directory d.  /t: an empty directory.
Base ==
    { <<<<>>, Dir>>,
      <<<<"s">>, Dir>>,
      <<<<"s", "f">>, Reg(Chunks(1, MaxData))>>,
      <<<<"s", "g">>, Reg(<<7>>)>>,
      <<<<"s", "d">>, Dir>>,
      <<<<"s", "d", "f">>, Reg(<<8>>)>>,
      <<<<"s", "e">>, Dir>>,
      <<<<"s", "e", "d">>, Dir>>,
      <<<<"t">>, Dir>> }

\* Symbolic links: /s/l to the file /s/g, /s/e/l to the directory /s/d, and
\* /s/d/l to /n, which does not exist.
Links ==
    { <<<<"s", "l">>, Lnk(<<"s", "g">>)>>,
      <<<<"s", "e", "l">>, Lnk(<<"s", "d">>)>>,
      <<<<"s", "d", "l">>, Lnk(<<"n">>)>> }

\* FIFOs: /p and /s/p.
Fifos == { <<<<"p">>, Fifo>>, <<<<"s", "p">>, Fifo>> }

\* A destination that already holds /t/s, with a regular file where the
\* source has the directory e.
TakenByFile ==
    { <<<<"t", "s">>, Dir>>,
      <<<<"t", "s", "e">>, Reg(<<9>>)>> }

\* A destination that already holds /t/s/e, with a regular file where the
\* source has the empty directory e/d.
TakenLeafByFile ==
    { <<<<"t", "s">>, Dir>>,
      <<<<"t", "s", "e">>, Dir>>,
      <<<<"t", "s", "e", "d">>, Reg(<<9>>)>> }

\* A destination that already holds /t/s, with a directory where the source
\* has the file g.
TakenByDir ==
    { <<<<"t", "s">>, Dir>>,
      <<<<"t", "s", "g">>, Dir>> }

InitFS ==
    { Tree(Base), Tree(Base \cup Links), Tree(Base \cup Fifos),
      Tree(Base \cup TakenByFile), Tree(Base \cup TakenLeafByFile),
      Tree(Base \cup TakenByDir) }

SrcArgs ==
    { <<"/", "s">>, <<"/", "s", "/">>, <<"s">>, <<"/", "s", "/", "f">>,
      <<"/", "s", "/", "e">>, <<"/", "p">> }

DstArgs ==
    { <<"/", "t">>, <<"/">>, <<"/", "s">>, <<"/", "s", "/", "d">>, <<"/", "t", "/", "x">>,
      <<"/", "s", "/", "f">>, <<"/", "t", "/", "x", "/", "x", "/", "x">> }

Unreadables == { {}, {<<"s", "g">>}, {<<"s", "d">>} }

\* The runs: every source and destination argument over the plain tree, and
\* over each tree with at most one of these: links, FIFOs or a taken
\* destination; an unreadable node; an I/O fault.  One run has a wrong argc.
Plain(sc) ==
    Cardinality({x \in {"fs", "unreadable", "fault"} :
                   \/ x = "fs" /\ sc.fs # Tree(Base)
                   \/ x = "unreadable" /\ sc.unreadable # {}
                   \/ x = "fault" /\ sc.fault # NoFault}) <= 1

Scenarios ==
    {sc \in [fs : InitFS, unreadable : Unreadables, fault : Faults, argc : {2, 3},
             src : SrcArgs, dst : DstArgs] :
        /\ Plain(sc)
        /\ sc.argc = 2 =>
              /\ sc.fs = Tree(Base) /\ sc.unreadable = {} /\ sc.fault = NoFault
              /\ sc.src = <<"/", "s">> /\ sc.dst = <<"/", "t">>}

Init ==
    /\ \E sc \in Scenarios :
          /\ fs = sc.fs
          /\ unreadable = sc.unreadable
          /\ fault = sc.fault
          /\ argc = sc.argc
          /\ srcArg = sc.src
          /\ dstArg = sc.dst
    /\ fs0 = fs
    /\ pc = "start"
    /\ stack = <<>>
    /\ st_mode = "none"
    /\ total_files = 0
    /\ copied_files = 0
    /\ exit_code = -1
    /\ out = {}
    /\ err = {}
    /\ renders = 0
    /\ calls = 0
    /\ last = NoCall
    /\ mkdirs = {}

Next ==
    \/ MainStart
    \/ ScanStep
    \/ AfterScan
    \/ CopyStep
    \/ MainFinish

Spec == Init /\ [][Next]_vars

----------------------------------------------------------------------------
\* What the properties speak of

IsPrefix(a, b) == Len(a) <= Len(b) /\ SubSeq(b, 1, Len(a)) = a

\* The nodes of the source tree: the source and everything below it.
SrcRoot == Comps(srcArg)

UnderSrc(p) == IsPrefix(SrcRoot, p)

\* The regular-file entries of the source tree when the program started.
SrcFiles == {p \in DOMAIN fs0 : UnderSrc(p) /\ fs0[p].kind = "reg"}

\* The directories of the source tree when the program started.
SrcDirs == {p \in DOMAIN fs0 : UnderSrc(p) /\ fs0[p].kind = "dir"}

\* The path under destination/basename(source) with the same relative path
\* as the source node p.
Mirror(p) ==
    Comps(dstArg) \o <<Last(SrcRoot)>> \o SubSeq(p, Len(SrcRoot) + 1, Len(p))

\* count_files(src) has returned in main.
ScanReturned == pc \in {"copy", "done"} \/ (pc = "scan" /\ stack = <<>>)

\* main returned after its copy pass.
CopyPassDone == pc = "done" /\ "done" \in out

----------------------------------------------------------------------------
\* C1: a run never changes, truncates, deletes or adds anything under the
\* source tree: at every moment the nodes of the source tree, and what they
\* hold, are those the program started with.
C1_SourceTreeUntouched ==
    /\ \A p \in DOMAIN fs0 : UnderSrc(p) => p \in DOMAIN fs /\ fs[p] = fs0[p]
    /\ \A p \in DOMAIN fs : UnderSrc(p) => p \in DOMAIN fs0

\* C2: once count_files has returned in main, 0 <= copied_files <= total_files
\* (nothing but the program changes the filesystem in this model).
C2_CopiedWithinTotal ==
    ScanReturned => 0 <= copied_files /\ copied_files <= total_files

\* C3: when every directory of the source tree can be opened and every
\* composed path fits, count_files leaves total_files equal to the number of
\* regular-file entries of the tree; links, directories and special files
\* add nothing, whatever the order readdir returns the entries in.
C3_CountIsRegularFiles ==
    (/\ pc = "scan"
     /\ stack = <<>>
     /\ unreadable \cap SrcDirs = {}
     /\ \A p \in DOMAIN fs0 : UnderSrc(p) => 2 * Len(p) < PathMax)
    => total_files = Cardinality(SrcFiles)

\* C4: when copy_file returns success and increments copied_files, the
\* destination holds exactly what the source held while it was read; and
\* when a read of the source or a write or the closing flush of the
\* destination fails, copy_file returns failure, copied_files is not
\* incremented and no progress line is printed.
C4_ByteExactOrFailure ==
    /\ (last.ret = 0 /\ last.add = 1) => fs[last.dp].data = last.data
    /\ last.faulted => (last.ret = -1 /\ last.add = 0 /\ last.shown = 0)

\* C5: when the source exists and is neither a regular file nor a
\* directory, the program reports an unsupported source type and exits with
\* a non-zero status.
C5_OtherSourceRejected ==
    (pc = "done" /\ st_mode \notin {"none", "reg", "dir"})
    => (exit_code # 0 /\ "unsupported" \in err)

\* C6: when the only failures of the copy pass over a directory source are
\* source files that cannot be opened for reading, every other regular file
\* of the tree has been copied to its place under the destination (with the
\* contents its source holds, when no I/O fault hit), and copied_files is the
\* number of copy_file calls that returned success.
C6_SiblingsStillCopied ==
    (CopyPassDone /\ st_mode = "dir" /\ err \subseteq {"open_src"})
    => /\ \A p \in SrcFiles \ unreadable :
            /\ Mirror(p) \in DOMAIN fs
            /\ fs[Mirror(p)].kind = "reg"
            /\ fault = NoFault => fs[Mirror(p)].data = fs[p].data
       /\ copied_files = calls
       /\ copied_files >= Cardinality(SrcFiles \ unreadable)

\* C6's case: g could not be opened, its sibling f and d's file were copied.
C6_Witness ==
    /\ CopyPassDone
    /\ st_mode = "dir"
    /\ err = {"open_src"}
    /\ unreadable = {<<"s", "g">>}
    /\ dstArg = <<"/", "t">>
    /\ copied_files = 2
    /\ total_files = 3
    /\ <<"t", "s", "g">> \notin DOMAIN fs
    /\ fs[<<"t", "s", "f">>].data = fs0[<<"s", "f">>].data
    /\ fs[<<"t", "s", "d", "f">>].data = fs0[<<"s", "d", "f">>].data

\* C7: after a run with a directory source that made its copy pass and
\* reported no error at all, every directory of the source tree, empty ones
\* included, has an entry that is a directory at the same relative path
\* under destination/basename(source).
C7_DirectoriesMirrored ==
    (CopyPassDone /\ st_mode = "dir" /\ err = {})
    => \A p \in SrcDirs : Mirror(p) \in DOMAIN fs /\ fs[Mirror(p)].kind = "dir"

C9_Original ==
    (pc = "done" /\ exit_code # 0)
    => err \cap {"usage", "stat_src", "dst_too_long", "unsupported"} # {}

\* C9 as amended: the exit code is 1 exactly when main reported an argument
\* error, a top-level path error, or the failure to create the top-level
\* destination folder; in every other run it is 0, whatever open, create,
\* mkdir, opendir, stat or write failed inside copy_dir and copy_file.
C9_ExitCode ==
    pc = "done"
    => /\ exit_code \in {0, 1}
       /\ exit_code = 1 <=>
            err \cap {"usage", "stat_src", "dst_too_long", "unsupported", "mkdir_top"} # {}

\* C9's case: a mkdir inside copy_dir failed, and main returned 0.
C9_Witness ==
    /\ pc = "done"
    /\ exit_code = 0
    /\ "done" \in out
    /\ "mkdir" \in err

\* C10: when the source is a directory tree with no regular file in it, the
\* program prints "No files to copy.", writes nothing (no mkdir, no file
\* created or truncated), calls neither copy_dir nor copy_file, and exits 0.
C10_EmptySourceWritesNothing ==
    (pc = "done" /\ argc = 3 /\ SrcRoot \in SrcDirs /\ SrcFiles = {})
    => /\ "nofiles" \in out
       /\ exit_code = 0
       /\ fs = fs0
       /\ mkdirs = {}
       /\ last = NoCall

====
